---- MODULE Spec2Model ----
(***************************************************************************)
(* Golden-Triangle Scorecard (src/app.py).                                 *)
(*                                                                         *)
(* Spec      : sequences of fetch_company_data lookups over the cache dir  *)
(* SpecAbort : the same, plus a run killed in the middle of a cache write  *)
(* SpecPipe  : one run of main(): read, aggregate, enrich, score, rank     *)
(* SpecRank  : the rank / star columns of main() on tables of > 20 rows    *)
(*                                                                         *)
(* Numbers that are floats in the program are exact rationals here,        *)
(* [n |-> numerator, d |-> denominator]; d = 0 is a non-finite value.      *)
(***************************************************************************)
EXTENDS Integers, Sequences, FiniteSets, TLC

VARIABLES cache, last, owners, pc, df, pressed, companies, extra_data, error, idx

vars == <<cache, last, owners, pc, df, pressed, companies, extra_data, error, idx>>

pipeVars == <<pc, df, pressed, companies, extra_data, error, idx>>

(***************************************************************************)
(* Bounds                                                                  *)
(***************************************************************************)
MaxLangs == 2
MaxRows == 3
MaxCompanies == 22

(***************************************************************************)
(* Company names and cache keys                                            *)
(***************************************************************************)
\* company names are strings; here sequences of characters
Names == { <<"a", " ", "b">>, <<"a", "_", "b">>, <<"c">> }

replace_space(ch) == IF ch = " " THEN "_" ELSE ch

\* get_cache_key: cache/<name with ' ' replaced by '_'>.json
get_cache_key(company_name) ==
    <<"cache", "/">> \o [i \in 1..Len(company_name) |-> replace_space(company_name[i])] \o <<".json">>

CacheKeys == { get_cache_key(n) : n \in Names }

(***************************************************************************)
(* Ratings and records                                                     *)
(***************************************************************************)
NA == [tag |-> "N/A", val |-> 0]
Float(v) == [tag |-> "float", val |-> v]

\* values a scraped span.rating-value can parse to
RatingValues == {5, 101, -1}

LangCodes == {"en", "fr"}

RECURSIVE SeqsUpTo(_, _)
SeqsUpTo(S, k) ==
    IF k = 0 THEN { <<>> }
    ELSE LET shorter == SeqsUpTo(S, k - 1)
         IN  shorter \cup { Append(s, x) : s \in { t \in shorter : Len(t) = k - 1 }, x \in S }

LangLists == SeqsUpTo(LangCodes, MaxLangs)

\* len(set(langs))
len_set(langs) == Cardinality({ langs[i] : i \in 1..Len(langs) })

(***************************************************************************)
(* The cache files: json.dump / json.load                                  *)
(***************************************************************************)
\* json.dump(data, f): the chunks written to the file, in order
json_dump(data) ==
    << <<"{">>, <<"key", "languages">>, <<"int", data.languages>>,
       <<"key", "rating">>, <<"val", data.rating>>, <<"}">> >>

IsKey(tok, k) == Len(tok) = 2 /\ tok[1] = "key" /\ tok[2] = k

\* json.load(f) succeeds on a complete document only
json_valid(content) ==
    /\ Len(content) = 6
    /\ content[1] = <<"{">>
    /\ IsKey(content[2], "languages")
    /\ Len(content[3]) = 2 /\ content[3][1] = "int"
    /\ IsKey(content[4], "rating")
    /\ Len(content[5]) = 2 /\ content[5][1] = "val"
    /\ content[6] = <<"}">>

json_load(content) == [languages |-> content[3][2], rating |-> content[5][2]]

\* a lookup that never finds the file
os_path_exists_never(c, key) == FALSE

\* os.path.exists(cache_file)
os_path_exists(c, key) == c[key].exists

NoFile == [exists |-> FALSE, content |-> <<>>]
File(content) == [exists |-> TRUE, content |-> content]

(***************************************************************************)
(* fetch_company_data                                                      *)
(***************************************************************************)
\* where the external fetch (lines 38-65) stops; "ok" runs to line 63
EarlyPoints == {"search_raises", "no_results", "request_raises", "soup_raises"}
G2Points == {"g2_search_raises", "g2_no_results", "g2_request_raises",
             "g2_soup_raises", "no_rating_el", "float_raises"}
FailPoints == EarlyPoints \cup {"lang_scan_raises"} \cup G2Points

\* what the web answers: the point reached, the lang attributes collected so
\* far and the number in span.rating-value
Outcomes ==
    { [point |-> p, langs |-> <<>>, rating |-> 0] : p \in EarlyPoints }
    \cup { [point |-> p, langs |-> l, rating |-> 0] :
              p \in {"lang_scan_raises"} \cup G2Points, l \in LangLists }
    \cup { [point |-> "ok", langs |-> l, rating |-> v] : l \in LangLists, v \in RatingValues }

NotAsked == [point |-> "", langs |-> <<>>, rating |-> 0]

\* line 47: langs = [] has been executed
langs_bound(out) == out.point \notin EarlyPoints

\* line 55: rating = "N/A" has been executed
rating_bound(out) == out.point \notin (EarlyPoints \cup {"lang_scan_raises"})

\* lines 55-63: the value of rating when the try block is left
rating_after_try(out) == IF out.point = "ok" THEN Float(out.rating) ELSE NA

\* calls to duckduckgo_search.search and requests.get made by lines 40-59
external_calls(out) ==
    CASE out.point \in {"search_raises", "no_results"} -> 1
      [] out.point \in {"request_raises", "soup_raises", "lang_scan_raises"} -> 2
      [] out.point \in {"g2_search_raises", "g2_no_results"} -> 3
      [] OTHER -> 4

None == [languages |-> -1, rating |-> [tag |-> "none", val |-> 0]]
DefaultRecord == [languages |-> 0, rating |-> NA]

\* lines 34-36: the cache hit
cache_hit(c, key) ==
    IF json_valid(c[key].content)
    THEN [kind |-> "hit", raised |-> FALSE, exc |-> "", result |-> json_load(c[key].content),
          calls |-> 0, wrote |-> FALSE, cache |-> c]
    ELSE [kind |-> "hit", raised |-> TRUE, exc |-> "JSONDecodeError", result |-> None,
          calls |-> 0, wrote |-> FALSE, cache |-> c]

\* lines 68-71: data = {'languages': len(set(langs)), 'rating': rating}
build_data(out) == [languages |-> len_set(out.langs), rating |-> rating_after_try(out)]

\* lines 38-77: the cache miss
cache_miss(c, key, out) ==
    IF langs_bound(out) /\ rating_bound(out)
    THEN [kind |-> "miss", raised |-> FALSE, exc |-> "", result |-> build_data(out),
          calls |-> external_calls(out), wrote |-> TRUE,
          cache |-> [c EXCEPT ![key] = File(json_dump(build_data(out)))]]
    ELSE [kind |-> "miss", raised |-> TRUE, exc |-> "UnboundLocalError", result |-> None,
          calls |-> external_calls(out), wrote |-> FALSE, cache |-> c]

fetch_company_data(c, company_name, out) ==
    LET cache_file == get_cache_key(company_name)
    IN  IF os_path_exists(c, cache_file)
        THEN cache_hit(c, cache_file)
        ELSE cache_miss(c, cache_file, out)

(***************************************************************************)
(* Spec: lookups against the persistent cache directory                    *)
(***************************************************************************)
NoCall == [name |-> <<>>, point |-> "", kind |-> "none", raised |-> FALSE, exc |-> "",
           result |-> None, calls |-> 0, wrote |-> FALSE]

PipeIdle ==
    /\ pc = "idle" /\ df = <<>> /\ pressed = FALSE /\ companies = <<>>
    /\ extra_data = <<>> /\ error = "" /\ idx = 0

Init ==
    /\ cache = [k \in CacheKeys |-> NoFile]
    /\ last = NoCall
    /\ owners = [k \in CacheKeys |-> {}]
    /\ PipeIdle

\* one call fetch_company_data(name, url) with the web answering out
Lookup(name, out) ==
    LET r == fetch_company_data(cache, name, out)
        key == get_cache_key(name)
        touched == r.kind = "hit" \/ r.wrote
    IN  /\ cache' = r.cache
        /\ last' = [name |-> name, point |-> IF r.kind = "hit" THEN "" ELSE out.point,
                    kind |-> r.kind, raised |-> r.raised, exc |-> r.exc,
                    result |-> r.result, calls |-> r.calls, wrote |-> r.wrote]
        /\ owners' = IF touched THEN [owners EXCEPT ![key] = @ \cup {name}] ELSE owners
        /\ UNCHANGED pipeVars

\* the web is consulted only on a cache miss
WebAnswers(c, name) ==
    IF os_path_exists(c, get_cache_key(name)) THEN {NotAsked} ELSE Outcomes

Next == \E name \in Names : \E out \in WebAnswers(cache, name) : Lookup(name, out)

Spec == Init /\ [][Next]_vars

(***************************************************************************)
(* SpecAbort: a run may be killed between open(cache_file, 'w') and the    *)
(* end of json.dump (lines 74-75); the file keeps what was written so far  *)
(***************************************************************************)
\* what the file can hold when the write stops early: the chunks json.dump
\* had written so far (none when the process dies right after open)
PartialWrites(data) ==
    { SubSeq(json_dump(data), 1, k) : k \in 0..(Len(json_dump(data)) - 1) }

AbortDuringWrite(name, out, content) ==
    LET key == get_cache_key(name)
        r == fetch_company_data(cache, name, out)
    IN  /\ r.kind = "miss" /\ r.wrote
        /\ content \in PartialWrites(r.result)
        /\ cache' = [cache EXCEPT ![key] = File(content)]
        /\ last' = [name |-> name, point |-> out.point, kind |-> "aborted", raised |-> FALSE,
                    exc |-> "", result |-> None, calls |-> r.calls, wrote |-> TRUE]
        /\ owners' = [owners EXCEPT ![key] = @ \cup {name}]
        /\ UNCHANGED pipeVars

NextAbort ==
    \/ \E name \in Names : \E out \in WebAnswers(cache, name) : Lookup(name, out)
    \/ \E name \in Names : \E out \in WebAnswers(cache, name) :
          \E content \in PartialWrites(build_data(out)) : AbortDuringWrite(name, out, content)

SpecAbort == Init /\ [][NextAbort]_vars

(***************************************************************************)
(* main(): the input table and the aggregation (lines 92-112)              *)
(***************************************************************************)
\* results__funded_organization_identifier__uuid; 0 is a null identifier.
\* The integers stand for the sort order of the uuid strings.
NullUuid == 0
Uuids == {1, 2, 3}

NameOf(u) == CASE u = 1 -> <<"a", " ", "b">>
               [] u = 2 -> <<"a", "_", "b">>
               [] OTHER -> <<"c">>

\* results__money_raised__value_usd; a missing cell is NaN
Missing == [tag |-> "nan", val |-> 0]
Usd(v) == [tag |-> "float", val |-> v]
Amounts == {Missing, Usd(0), Usd(1), Usd(2)}

Rows == { [uuid |-> u, company |-> NameOf(u), amount |-> a] :
             u \in Uuids \cup {NullUuid}, a \in Amounts }

Tables == SeqsUpTo(Rows, MaxRows)

RECURSIVE SumSeq(_)
SumSeq(s) == IF s = <<>> THEN 0 ELSE Head(s) + SumSeq(Tail(s))

\* the rows of one group, in input order
SelectRows(rows, u) == SelectSeq(rows, LAMBDA r : r.uuid = u)

\* the amount of the first round only
agg_sum_first(group) == IF group[1].amount.tag = "nan" THEN 0 ELSE group[1].amount.val

\* 'sum': NaN cells are skipped
agg_sum(group) ==
    SumSeq([i \in 1..Len(group) |-> IF group[i].amount.tag = "nan" THEN 0 ELSE group[i].amount.val])

\* 'first'
agg_first(group) == group[1].company

\* groupby keys: distinct non-null identifiers, sorted
group_keys(rows) == { rows[i].uuid : i \in 1..Len(rows) } \ {NullUuid}

RECURSIVE SortedSeq(_)
SortedSeq(S) ==
    IF S = {} THEN <<>>
    ELSE LET m == CHOOSE x \in S : \A y \in S : x <= y
         IN  <<m>> \o SortedSeq(S \ {m})

\* lines 101-112: groupby(uuid).agg(...).reset_index(), employees = 1
groupby_agg(rows) ==
    LET keys == SortedSeq(group_keys(rows))
    IN  [i \in 1..Len(keys) |->
            [uuid |-> keys[i],
             company |-> agg_first(SelectRows(rows, keys[i])),
             raised_usd |-> agg_sum(SelectRows(rows, keys[i])),
             employees |-> 1]]

(***************************************************************************)
(* main(): scores and ranks (lines 127-147, 176-178)                       *)
(***************************************************************************)
Rat(n, d) == [n |-> n, d |-> d]
RatAdd(a, b) == Rat(a.n * b.d + b.n * a.d, a.d * b.d)
RatLess(a, b) == a.n * b.d < b.n * a.d
RatEq(a, b) == a.n * b.d = b.n * a.d
RatLeq(a, b) == a.n * b.d <= b.n * a.d
IsFinite(a) == a.d # 0

SeqMin(s) == CHOOSE x \in { s[i] : i \in 1..Len(s) } : \A j \in 1..Len(s) : x <= s[j]
SeqMax(s) == CHOOSE x \in { s[i] : i \in 1..Len(s) } : \A j \in 1..Len(s) : x >= s[j]

\* a zero range left as it is
handle_zeros_none(range) == range

\* sklearn _handle_zeros_in_scale: a zero range is replaced by 1
handle_zeros_in_scale(range) == IF range = 0 THEN 1 ELSE range

\* MinMaxScaler(feature_range=(0, 100)).fit_transform(column)
fit_transform(column) ==
    LET data_min == SeqMin(column)
        data_range == SeqMax(column) - data_min
    IN  [i \in 1..Len(column) |->
            Rat((column[i] - data_min) * 100, handle_zeros_in_scale(data_range))]

\* line 127: raised_usd / employees
efficiency(row) == row.raised_usd \div row.employees

\* lines 141-143
service_quality(rating) == IF rating = NA THEN Rat(0, 1) ELSE Rat(rating.val, 1)

\* line 146: mean(axis=1) of the three pillar scores
mean3(a, e, q) == LET sum == RatAdd(RatAdd(a, e), q) IN Rat(sum.n, sum.d * 3)

RECURSIVE InsertDesc(_, _, _)
InsertDesc(sorted, i, scores) ==
    IF sorted = <<>> THEN <<i>>
    ELSE IF RatLess(scores[Head(sorted)], scores[i]) THEN <<i>> \o sorted
    ELSE <<Head(sorted)>> \o InsertDesc(Tail(sorted), i, scores)

\* the row indices sorted by descending score (stable)
RECURSIVE argsort_desc(_, _)
argsort_desc(scores, k) ==
    IF k = 0 THEN <<>> ELSE InsertDesc(argsort_desc(scores, k - 1), k, scores)

RECURSIVE SumSet(_)
SumSet(S) == IF S = {} THEN 0 ELSE LET x == CHOOSE y \in S : TRUE IN x + SumSet(S \ {x})

TiedPositions(scores, order, i) ==
    { p \in 1..Len(order) : RatEq(scores[order[p]], scores[i]) }

\* method='min': the first position of the tie group
rank_value_min(scores, order, i) ==
    Rat(CHOOSE p \in TiedPositions(scores, order, i) :
            \A q \in TiedPositions(scores, order, i) : p <= q, 1)

\* line 147: Series.rank(ascending=False) with pandas' default method='average':
\* a row gets the mean of the sorted positions of the rows tied with it
rank_value(scores, order, i) ==
    LET tied == TiedPositions(scores, order, i) IN Rat(SumSet(tied), Cardinality(tied))

rank_column(scores) ==
    LET order == argsort_desc(scores, Len(scores))
    IN  [i \in 1..Len(scores) |-> rank_value(scores, order, i)]

\* the number of starred ranks
TopN == 20

\* a strict comparison with the threshold
star_cell_strict(x) ==
    IF RatLess(x, Rat(TopN, 1))
    THEN [star |-> TRUE, shown |-> x]
    ELSE [star |-> FALSE, shown |-> Rat(x.n \div x.d, 1)]

\* lines 176-178: f"* {x}" if x <= 20 else str(int(x))
star_cell(x) ==
    IF RatLeq(x, Rat(TopN, 1))
    THEN [star |-> TRUE, shown |-> x]
    ELSE [star |-> FALSE, shown |-> Rat(x.n \div x.d, 1)]

\* lines 123-124: the columns taken from extra_data
languages_of(e, name) == IF name \in DOMAIN e THEN e[name].languages ELSE 0
rating_of(e, name) == IF name \in DOMAIN e THEN e[name].rating ELSE NA

\* lines 122-147 and 176-178 on a table that has the languages and rating columns
score_table(table, e) ==
    LET languages == [i \in 1..Len(table) |-> languages_of(e, table[i].company)]
        eff == [i \in 1..Len(table) |-> efficiency(table[i])]
        access == fit_transform(languages)
        effscore == fit_transform(eff)
        quality == [i \in 1..Len(table) |-> service_quality(rating_of(e, table[i].company))]
        overall == [i \in 1..Len(table) |-> mean3(access[i], effscore[i], quality[i])]
        ranks == rank_column(overall)
    IN  [i \in 1..Len(table) |->
            [uuid |-> table[i].uuid, company |-> table[i].company,
             raised_usd |-> table[i].raised_usd, employees |-> table[i].employees,
             languages |-> languages[i], rating |-> rating_of(e, table[i].company),
             efficiency |-> eff[i], access_score |-> access[i],
             efficiency_score |-> effscore[i], service_quality_score |-> quality[i],
             overall_score |-> overall[i], rank |-> ranks[i],
             moonfire_rank |-> star_cell(ranks[i])]]

(***************************************************************************)
(* SpecPipe: one run of main()                                             *)
(***************************************************************************)
\* last and owners record the lookups of Spec and SpecAbort only
CacheIdle == /\ last = NoCall /\ owners = [k \in CacheKeys |-> {}]

InitPipe ==
    /\ cache = [k \in CacheKeys |-> NoFile]
    /\ CacheIdle
    /\ pc = "start" /\ df = <<>> /\ pressed = FALSE /\ companies = <<>>
    /\ extra_data = <<>> /\ error = "" /\ idx = 0

\* lines 90-96: pd.read_csv
ReadCsv(rows) ==
    /\ pc = "start"
    /\ df' = rows
    /\ pc' = "loaded"
    /\ UNCHANGED <<cache, last, owners, pressed, companies, extra_data, error, idx>>

\* lines 101-112
Aggregate ==
    /\ pc = "loaded"
    /\ companies' = groupby_agg(df)
    /\ pc' = "aggregated"
    /\ UNCHANGED <<cache, last, owners, df, pressed, extra_data, error, idx>>

\* lines 115-117: st.button("Fetch Extra Data"); df is not read after line 106
Button(b) ==
    /\ pc = "aggregated"
    /\ pressed' = b
    /\ pc' = IF b THEN "fetching" ELSE "scoring"
    /\ idx' = 1
    /\ df' = <<>>
    /\ UNCHANGED <<cache, last, owners, companies, extra_data, error>>

\* lines 118-120: one iteration of the enrichment loop; an exception leaves
\* the try block of main() for line 218
FetchRow(out) ==
    /\ pc = "fetching" /\ idx <= Len(companies)
    /\ LET name == companies[idx].company
           r == fetch_company_data(cache, name, out)
       IN  /\ cache' = r.cache
           /\ IF r.raised
              THEN /\ pc' = "error" /\ error' = r.exc
                   /\ UNCHANGED <<extra_data, idx>>
              ELSE /\ extra_data' = [n \in (DOMAIN extra_data) \cup {name} |->
                                        IF n = name THEN r.result ELSE extra_data[n]]
                   /\ idx' = idx + 1
                   /\ UNCHANGED <<pc, error>>
    /\ UNCHANGED <<last, owners, df, pressed, companies>>

\* lines 122-178. Without the button the table has no 'languages' column
\* (fillna does not create one) and companies[['languages']] raises KeyError;
\* MinMaxScaler raises ValueError on a table without rows.
Score ==
    /\ \/ pc = "scoring"
       \/ pc = "fetching" /\ idx > Len(companies)
    /\ IF ~pressed
       THEN /\ pc' = "error" /\ error' = "KeyError" /\ UNCHANGED companies
       ELSE IF Len(companies) = 0
       THEN /\ pc' = "error" /\ error' = "ValueError" /\ UNCHANGED companies
       ELSE /\ pc' = "done" /\ companies' = score_table(companies, extra_data)
            /\ UNCHANGED error
    /\ UNCHANGED <<cache, last, owners, df, pressed, extra_data, idx>>

NextPipe ==
    \/ \E rows \in IF pc = "start" THEN Tables ELSE {} : ReadCsv(rows)
    \/ Aggregate
    \/ \E b \in BOOLEAN : Button(b)
    \/ \E out \in IF pc = "fetching" /\ idx <= Len(companies)
                  THEN WebAnswers(cache, companies[idx].company) ELSE {} : FetchRow(out)
    \/ Score

SpecPipe == InitPipe /\ [][NextPipe]_vars

(***************************************************************************)
(* SpecRank: lines 147 and 176-178 on tables of more than 20 companies     *)
(***************************************************************************)
\* overall scores of rows without enrichment data: efficiency_score / 3
Levels == { Rat(0, 3), Rat(50, 3), Rat(100, 3) }

Block(score, k) == [i \in 1..k |-> [overall_score |-> score]]

LevelOrders ==
    { o \in Levels \X Levels \X Levels : o[1] # o[2] /\ o[1] # o[3] /\ o[2] # o[3] }

BlockSizes ==
    { n \in (0..MaxCompanies) \X (0..MaxCompanies) \X (0..MaxCompanies) :
        n[1] + n[2] + n[3] \in 1..MaxCompanies }

\* tables of up to MaxCompanies rows: three runs of rows with equal scores
RankTables ==
    { Block(o[1], n[1]) \o Block(o[2], n[2]) \o Block(o[3], n[3]) :
        o \in LevelOrders, n \in BlockSizes }

InitRank ==
    /\ cache = [k \in CacheKeys |-> NoFile]
    /\ CacheIdle
    /\ pc = "ranking"
    /\ companies \in RankTables
    /\ df = <<>> /\ pressed = FALSE /\ extra_data = <<>> /\ error = "" /\ idx = 0

\* lines 147 and 176-178
RankRows ==
    /\ pc = "ranking"
    /\ \E ranks \in {rank_column([i \in 1..Len(companies) |-> companies[i].overall_score])} :
           companies' = [i \in 1..Len(companies) |->
                            [overall_score |-> companies[i].overall_score,
                             rank |-> ranks[i],
                             moonfire_rank |-> star_cell(ranks[i])]]
    /\ pc' = "ranked"
    /\ UNCHANGED <<cache, last, owners, df, pressed, extra_data, error, idx>>

NextRank == RankRows

SpecRank == InitRank /\ [][NextRank]_vars

(***************************************************************************)
(* Properties                                                              *)
(***************************************************************************)
Greater(table, i) == { j \in 1..Len(table) : RatLess(table[i].overall_score, table[j].overall_score) }
Tied(table, i) == { j \in 1..Len(table) : RatEq(table[i].overall_score, table[j].overall_score) }
InRange(x) == IsFinite(x) /\ RatLeq(Rat(0, 1), x) /\ RatLeq(x, Rat(100, 1))
IsZero(x) == IsFinite(x) /\ x.n = 0

\* C1 (as claimed): on a cache miss, whatever way the external fetch fails,
\* fetch_company_data does not raise and returns {languages: 0, rating: 'N/A'}.
C1_MissNeverRaises ==
    (last.kind = "miss" /\ last.point \in FailPoints)
        => (~last.raised /\ last.result = DefaultRecord)

\* C2: a lookup for a company whose cache file exists returns the stored
\* record, makes no external call and leaves the cache directory unchanged.
C2_HitReturnsStored ==
    [][\A name \in Names :
          (last'.name = name /\ cache[get_cache_key(name)].exists)
              => /\ ~last'.raised
                 /\ last'.result = json_load(cache[get_cache_key(name)].content)
                 /\ last'.calls = 0
                 /\ ~last'.wrote
                 /\ cache' = cache]_vars

\* a hit that returned a stored degraded default
W_C2 == last.kind = "hit" /\ ~last.raised /\ last.result = DefaultRecord

\* C3 (as claimed): rank = 1 + number of companies with a strictly greater
\* overall score, also for tied companies.
C3_CompetitionRank ==
    pc = "done" =>
        \A i \in 1..Len(companies) :
            RatEq(companies[i].rank, Rat(1 + Cardinality(Greater(companies, i)), 1))

\* C3 (amended): rank = number of companies with a strictly greater overall
\* score + (number of companies with that score + 1) / 2; equal scores share
\* the rank and a greater score has a smaller rank.
C3_AverageRank ==
    pc = "done" =>
        \A i \in 1..Len(companies) :
            /\ RatEq(companies[i].rank,
                     Rat(2 * Cardinality(Greater(companies, i)) + Cardinality(Tied(companies, i)) + 1, 2))
            /\ \A j \in 1..Len(companies) :
                  /\ j \in Tied(companies, i) => RatEq(companies[i].rank, companies[j].rank)
                  /\ j \in Greater(companies, i) => RatLess(companies[j].rank, companies[i].rank)

\* a scored table of three companies, two of them tied above the third
W_C3 ==
    /\ pc = "done" /\ Len(companies) = 3
    /\ \E i, j, k \in 1..3 :
          /\ i # j
          /\ RatEq(companies[i].overall_score, companies[j].overall_score)
          /\ RatLess(companies[k].overall_score, companies[i].overall_score)
          /\ RatEq(companies[k].rank, Rat(3, 1))

\* C4 (as claimed): a run over a non-empty table without the fetch step ends
\* without error, with languages 0, rating N/A, access and service quality
\* scores 0 and an overall score and a rank in every row.
C4_NoEnrichmentRunCompletes ==
    (~pressed /\ pc \in {"done", "error"} /\ Len(companies) > 0)
        => /\ pc = "done"
           /\ \A i \in 1..Len(companies) :
                 /\ companies[i].languages = 0 /\ companies[i].rating = NA
                 /\ IsZero(companies[i].access_score)
                 /\ IsZero(companies[i].service_quality_score)

\* C5 (as claimed): in every scored table the three pillar scores of every
\* row lie in [0, 100].
C5_PillarScoresInRange ==
    pc = "done" =>
        \A i \in 1..Len(companies) :
            /\ InRange(companies[i].access_score)
            /\ InRange(companies[i].efficiency_score)
            /\ InRange(companies[i].service_quality_score)

\* C6 (as claimed): a row is starred exactly when 1 + the number of
\* companies with a strictly greater overall score is <= 20.
C6_StarByCompetitionRank ==
    pc = "ranked" =>
        \A i \in 1..Len(companies) :
            companies[i].moonfire_rank.star <=> (1 + Cardinality(Greater(companies, i)) <= TopN)

\* C6 (amended): a row is starred exactly when its average rank, the number
\* of strictly greater scores + (number of rows with its score + 1) / 2, is
\* <= 20; tied rows are starred together or not at all.
C6_StarByAverageRank ==
    pc = "ranked" =>
        \A i \in 1..Len(companies) :
            /\ companies[i].moonfire_rank.star
                 <=> (2 * Cardinality(Greater(companies, i)) + Cardinality(Tied(companies, i)) + 1
                        <= 2 * TopN)
            /\ \A j \in Tied(companies, i) :
                  companies[j].moonfire_rank.star = companies[i].moonfire_rank.star

\* rows tied across the 20th position, none of them starred, below starred rows
W_C6 ==
    /\ pc = "ranked"
    /\ \E i \in 1..Len(companies) :
          /\ Cardinality(Greater(companies, i)) < TopN
          /\ Cardinality(Greater(companies, i)) + Cardinality(Tied(companies, i)) > TopN
          /\ ~companies[i].moonfire_rank.star
    /\ \E i \in 1..Len(companies) : companies[i].moonfire_rank.star

\* C7 (as claimed): whatever point a run was aborted at, every cache file
\* that exists is a complete record and a lookup that finds it does not raise.
C7_EntriesValidAfterAbort ==
    /\ \A k \in CacheKeys : cache[k].exists => json_valid(cache[k].content)
    /\ last.kind = "hit" => ~last.raised

C9_AggregationConserves ==
    (pc = "aggregated" /\ \A r \in 1..Len(df) : df[r].uuid # NullUuid)
        => /\ Len(companies) = Cardinality({ df[r].uuid : r \in 1..Len(df) })
           /\ \A i, j \in 1..Len(companies) : companies[i].uuid = companies[j].uuid => i = j
           /\ SumSeq([i \in 1..Len(companies) |-> companies[i].raised_usd])
                = SumSeq([r \in 1..Len(df) |->
                            IF df[r].amount = Missing THEN 0 ELSE df[r].amount.val])

\* two rounds of one company and a round of another, all with an amount
W_C9 ==
    /\ pc = "aggregated" /\ Len(df) = 3 /\ Len(companies) = 2
    /\ \A r \in 1..3 : df[r].uuid # NullUuid /\ df[r].amount # Missing /\ df[r].amount.val > 0
    /\ df[1].uuid = df[3].uuid

\* C10 (as claimed): no cache file is read or written on behalf of more than
\* one company name.
C10_KeysDisjoint ==
    \A k \in CacheKeys : Cardinality(owners[k]) <= 1

====
